---- MODULE Spec2Model ----
(***************************************************************************)
(* Model of the two Citi Bike dashboards:                                  *)
(*   "fixed"  = bike_dashboard_final_fixed.py                              *)
(*   "simple" = bike_dashboard_simple_csv_cleaned_Part_2.py                *)
(* One Streamlit rerun (one user interaction) is one action: load_data()   *)
(* through the st.cache_data memo, then the selected page's code, up to    *)
(* its last statement or to the first exception it raises.                 *)
(*                                                                         *)
(* Representation of values:                                               *)
(*   - a CSV cell of a text column is a string, the empty cell (pandas     *)
(*     NaN) is the string NaN;                                             *)
(*   - a CSV timestamp cell is the tuple <<day, hh, mm, ss>> of the fields *)
(*     of "2022-01-DD hh:mm:ss", the empty cell is <<>>;                   *)
(*   - a parsed datetime is <<seconds since 2022-01-01 00:00:00>>, NaT is  *)
(*     <<>>;                                                               *)
(*   - ride_duration_min is kept exact as <<seconds>> (the value in        *)
(*     minutes is seconds / 60), NaN is <<>>;                              *)
(*   - a mean is the reduced fraction <<num, den>> of minutes, NaN is <<>>.*)
(***************************************************************************)
EXTENDS Integers, Sequences, FiniteSets, TLC

VARIABLES variant, csv, present, cache, reads, page, df, out, raised,
          computed, df_filtered, daily_stats, top_start_stations,
          top_end_stations, user_type_counts, bike_type_counts, metrics,
          hist_data, nbins, station_data

vars == <<variant, csv, present, cache, reads, page, df, out, raised,
          computed, df_filtered, daily_stats, top_start_stations,
          top_end_stations, user_type_counts, bike_type_counts, metrics,
          hist_data, nbins, station_data>>

----------------------------------------------------------------------------
(* Bounds of the model *)

\* longest table of the duration and category families
MaxRows == 3
\* longest table of the station family (more than TopN distinct stations)
MaxRankRows == 12
\* read_csv attempts followed per process
MaxReads == 2

(* Program constants *)

TrendLow == 1
TrendHigh == 120
DistLow == 1
DistHigh == 60
TopN == 10
HistBins == 20
PlotlyNBins == 30

NaN == "NaN"
NaT == <<>>

----------------------------------------------------------------------------
(* Generic helpers *)

Min2(a, b) == IF a <= b THEN a ELSE b

Abs(a) == IF a < 0 THEN -a ELSE a

RECURSIVE Gcd(_, _)
Gcd(a, b) == IF b = 0 THEN a ELSE Gcd(b, a % b)

RECURSIVE SumSeq(_)
SumSeq(s) == IF s = <<>> THEN 0 ELSE Head(s) + SumSeq(Tail(s))

RECURSIVE SetToSortedSeq(_)
SetToSortedSeq(S) ==
    IF S = {} THEN <<>>
    ELSE LET m == CHOOSE x \in S : \A y \in S : x <= y
         IN  <<m>> \o SetToSortedSeq(S \ {m})

Column(rows, c) == [i \in 1..Len(rows) |-> rows[i][c]]

\* reduced fraction num/den (den > 0)
Frac(num, den) ==
    LET g == Gcd(Abs(num), den)
    IN  <<num \div g, den \div g>>

----------------------------------------------------------------------------
(* pandas primitives used by the pages *)

\* pd.to_datetime on one cell: an empty cell is NaT, a well-formed string is
\* its instant, anything else makes to_datetime raise
Parseable(cell) ==
    \/ cell = <<>>
    \/ /\ Len(cell) = 4
       /\ cell[1] \in 1..31
       /\ cell[2] \in 0..23
       /\ cell[3] \in 0..59
       /\ cell[4] \in 0..59

to_datetime(cell) ==
    IF cell = <<>> THEN NaT
    ELSE <<(((cell[1] - 1) * 24 + cell[2]) * 60 + cell[3]) * 60 + cell[4]>>

\* the timestamp string of an instant (used to build input tables)
strftime(secs) ==
    <<(secs \div 86400) + 1, (secs \div 3600) % 24, (secs \div 60) % 60, secs % 60>>

\* Series.dt.date
dt_date(ts) == IF ts = NaT THEN NaT ELSE <<(ts[1] \div 86400) + 1>>

\* (ended_at - started_at).dt.total_seconds() / 60, kept as seconds
total_seconds(ended, started) ==
    IF ended = NaT \/ started = NaT THEN <<>> ELSE <<ended[1] - started[1]>>

\* a window open at its lower bound
betweenMutLeft(d, low, high) == d # <<>> /\ low * 60 < d[1] /\ d[1] <= high * 60

\* Series.between(low, high), inclusive="both"; NaN compares false
between(d, low, high) == d # <<>> /\ low * 60 <= d[1] /\ d[1] <= high * 60

\* Series.mean() of a duration column (skipna), in minutes
MeanMinutes(durs) ==
    LET vals == SelectSeq(durs, LAMBDA d : d # <<>>)
    IN  IF vals = <<>> THEN <<>>
        ELSE Frac(SumSeq([i \in 1..Len(vals) |-> vals[i][1]]), 60 * Len(vals))

\* Series.count(): the non-null cells
CountNonNull(col) == Len(SelectSeq(col, LAMBDA x : x # NaN))

\* the distinct non-null values of a column, in first-seen order
RECURSIVE FirstSeen(_, _)
FirstSeen(col, seen) ==
    IF col = <<>> THEN <<>>
    ELSE IF Head(col) = NaN \/ Head(col) \in seen
         THEN FirstSeen(Tail(col), seen)
         ELSE <<Head(col)>> \o FirstSeen(Tail(col), seen \cup {Head(col)})

Occurrences(col, v) == Len(SelectSeq(col, LAMBDA x : x = v))

\* sort of (value, count) pairs by count, descending, equal counts kept in
\* first-seen order
RECURSIVE SortByCountDesc(_)
SortByCountDesc(pairs) ==
    IF pairs = <<>> THEN <<>>
    ELSE LET i == CHOOSE k \in 1..Len(pairs) :
                    /\ \A j \in 1..Len(pairs) : pairs[j].count <= pairs[k].count
                    /\ \A j \in 1..(k - 1) : pairs[j].count < pairs[k].count
             rest == [j \in 1..(Len(pairs) - 1) |->
                         IF j < i THEN pairs[j] ELSE pairs[j + 1]]
         IN  <<pairs[i]>> \o SortByCountDesc(rest)

\* Series.value_counts(): dropna, sorted by count descending
value_counts(col) ==
    LET vals == FirstSeen(col, {})
    IN  SortByCountDesc([i \in 1..Len(vals) |->
                            [value |-> vals[i], count |-> Occurrences(col, vals[i])]])

\* Series.head(n)
head(s, n) == SubSeq(s, 1, Min2(n, Len(s)))

\* value_counts().get(key, 0)
get(counts, key, default) ==
    IF \E i \in 1..Len(counts) : counts[i].value = key
    THEN counts[CHOOSE i \in 1..Len(counts) : counts[i].value = key].count
    ELSE default

\* value_counts().sum()
CountsSum(counts) == SumSeq([i \in 1..Len(counts) |-> counts[i].count])

\* count / sum * 100, NaN when the sum is 0 (numpy 0/0)
Percentage(count, total) == IF total = 0 THEN <<>> ELSE Frac(100 * count, total)

----------------------------------------------------------------------------
(* The steps of the aggregation pipeline *)

\* df_temp = df: the object load_data returned under another name
copyMutAlias(d) == [alias |-> TRUE, rows |-> d.rows]

\* df.copy(): a table of its own, not the object load_data returned
copy(d) == [alias |-> FALSE, rows |-> d.rows]

\* what the object load_data returned holds after the page wrote to tmp
WriteThrough(d, tmp) == IF tmp.alias THEN [d EXCEPT !.rows = tmp.rows] ELSE d

ColumnParseable(rows, c) == \A i \in 1..Len(rows) : Parseable(rows[i][c])

\* df_temp[c] = pd.to_datetime(df_temp[c])
ParseColumn(tmp, c) ==
    [tmp EXCEPT !.rows = [i \in 1..Len(tmp.rows) |->
                             [tmp.rows[i] EXCEPT ![c] = to_datetime(@)]]]

\* df_temp['date'] = ...dt.date ; df_temp['ride_duration_min'] = ...
AddDerived(tmp) ==
    [tmp EXCEPT !.rows = [i \in 1..Len(tmp.rows) |->
        [c \in DOMAIN tmp.rows[i] \cup {"date", "ride_duration_min"} |->
            IF c = "date" THEN dt_date(tmp.rows[i].started_at)
            ELSE IF c = "ride_duration_min"
                 THEN total_seconds(tmp.rows[i].ended_at, tmp.rows[i].started_at)
                 ELSE tmp.rows[i][c]]]]

\* df_temp[df_temp['ride_duration_min'].between(low, high)]
Filter(rows, low, high) ==
    SelectSeq(rows, LAMBDA r : between(r.ride_duration_min, low, high))

\* .groupby('date').agg({'ride_id': 'count', 'ride_duration_min': 'mean'}):
\* one entry per date present, ascending; rows whose date is NaT are dropped
groupby_date_agg(rows) ==
    LET dates == SetToSortedSeq({rows[i].date[1] :
                                   i \in {k \in 1..Len(rows) : rows[k].date # NaT}})
        grp(d) == SelectSeq(rows, LAMBDA r : r.date = <<d>>)
    IN  [k \in 1..Len(dates) |->
            [date         |-> dates[k],
             daily_rides  |-> CountNonNull(Column(grp(dates[k]), "ride_id")),
             avg_duration |-> MeanMinutes(Column(grp(dates[k]), "ride_duration_min"))]]

\* pd.cut(x, bins=b) of a non-empty column: the b + 1 edges, equal width over
\* [min, max], each scaled by 1000 * b * 60 (x is <<seconds>>); the lowest
\* edge is lowered by 0.1% of the range, and a single distinct value widens
\* the range by 0.1% of the value on both sides
CutEdge(mn, mx, b, i) ==
    IF mn = mx
    THEN 999 * b * mn + 2 * i * mn
    ELSE 1000 * b * mn + 1000 * i * (mx - mn) - (IF i = 0 THEN b * (mx - mn) ELSE 0)

\* bins.searchsorted(x, side='left'): the first edge that is >= x
CutBin(x, mn, mx, b) ==
    CHOOSE i \in 0..(b + 1) :
        /\ (i <= b => CutEdge(mn, mx, b, i) >= 1000 * b * x)
        /\ \A j \in 0..(i - 1) : CutEdge(mn, mx, b, j) < 1000 * b * x

\* pd.cut(x, bins=b).value_counts().sort_index(): every bin, ascending
cut_value_counts(durs, b) ==
    LET xs == [i \in 1..Len(durs) |-> durs[i][1]]
        S  == {xs[i] : i \in 1..Len(xs)}
        mn == CHOOSE v \in S : \A w \in S : v <= w
        mx == CHOOSE v \in S : \A w \in S : v >= w
    IN  [i \in 1..b |->
            [left  |-> CutEdge(mn, mx, b, i - 1),
             right |-> CutEdge(mn, mx, b, i),
             count |-> Len(SelectSeq(xs, LAMBDA x : CutBin(x, mn, mx, b) = i))]]

\* df.groupby([name, lat, lng]).size(): rows with a null key are dropped
\* (the groups are listed in first-seen order; pandas sorts them by key, which
\* no property below reads)
RECURSIVE FirstSeenKeys(_, _)
FirstSeenKeys(keys, seen) ==
    IF keys = <<>> THEN <<>>
    ELSE IF NaN \in {Head(keys)[k] : k \in 1..3} \/ Head(keys) \in seen
         THEN FirstSeenKeys(Tail(keys), seen)
         ELSE <<Head(keys)>> \o FirstSeenKeys(Tail(keys), seen \cup {Head(keys)})

groupby_station_size(rows) ==
    LET keys == [i \in 1..Len(rows) |->
                    <<rows[i].start_station_name, rows[i].start_lat, rows[i].start_lng>>]
        ks   == FirstSeenKeys(keys, {})
    IN  [i \in 1..Len(ks) |->
            [key |-> ks[i],
             ride_count |-> Len(SelectSeq(keys, LAMBDA k : k = ks[i]))]]

\* Series.nunique()
nunique(col) == Len(FirstSeen(col, {}))

----------------------------------------------------------------------------
(* The pages. Each operator is one page's code run on the value d that      *)
(* load_data returned; its result is what the run leaves behind: the       *)
(* elements sent to the browser (out), the exception that ended it         *)
(* (raised), the tables it computed, and d as the page left it (df).       *)

NoMetrics ==
    [total_rides |-> 0, unique_stations |-> 0,
     members |-> 0, casual |-> 0, member_pct |-> <<>>,
     classic |-> 0, electric |-> 0, electric_pct |-> <<>>]

Blank(d) ==
    [out |-> <<>>, raised |-> "none", computed |-> {}, df |-> d,
     df_filtered |-> <<>>, daily_stats |-> <<>>, top_start_stations |-> <<>>,
     top_end_stations |-> <<>>, user_type_counts |-> <<>>,
     bike_type_counts |-> <<>>, metrics |-> NoMetrics, hist_data |-> <<>>,
     nbins |-> 0, station_data |-> <<>>]

\* df_temp = df.copy() and the two pd.to_datetime assignments; the first
\* unparseable cell raises, leaving the columns assigned before it
ParseTimestamps(d) ==
    LET t0 == copy(d)
    IN  IF ~ColumnParseable(t0.rows, "started_at")
        THEN [ok |-> FALSE, tmp |-> t0]
        ELSE LET t1 == ParseColumn(t0, "started_at")
             IN  IF ~ColumnParseable(t1.rows, "ended_at")
                 THEN [ok |-> FALSE, tmp |-> t1]
                 ELSE [ok |-> TRUE, tmp |-> ParseColumn(t1, "ended_at")]

IntroFixed(d) ==
    [Blank(d) EXCEPT
        !.out = <<"title", "markdown", "metric:Total Rides", "metric:Unique Stations",
                  "metric:Date Range", "subheader:Data Preview", "dataframe:head",
                  "subheader:Dataset Information", "write:Shape", "write:Date Range">>,
        !.metrics = [NoMetrics EXCEPT
                        !.total_rides = Len(d.rows),
                        !.unique_stations = nunique(Column(d.rows, "start_station_name"))]]

IntroSimple(d) ==
    [Blank(d) EXCEPT
        !.out = <<"title", "markdown", "image", "caption", "write", "dataframe:head">>]

\* the window the trend view of a variant applies (the simple variant has
\* no filter between the derived columns and the groupby)
TrendRowsFixed(rows) == Filter(rows, TrendLow, TrendHigh)

DailyTrendsFixed(d) ==
    LET p    == ParseTimestamps(d)
        hdr  == <<"header:Daily Ride Trends">>
        tmp  == AddDerived(p.tmp)
        filt == TrendRowsFixed(tmp.rows)
    IN  IF ~p.ok
        THEN [Blank(WriteThrough(d, p.tmp)) EXCEPT
                 !.out = hdr \o <<"exception">>, !.raised = "ParserError"]
        ELSE [Blank(WriteThrough(d, tmp)) EXCEPT
                 !.out = hdr \o <<"subheader:Daily Ride Counts", "line_chart:daily_rides",
                                  "subheader:Average Daily Ride Duration",
                                  "line_chart:avg_duration", "metric:Average Daily Rides",
                                  "metric:Peak Day Rides", "metric:Average Ride Duration",
                                  "metric:Longest Avg Duration">>,
                 !.computed = {"df_filtered", "daily_stats"},
                 !.df_filtered = filt,
                 !.daily_stats = groupby_date_agg(filt)]

DualAxisSimple(d) ==
    LET p    == ParseTimestamps(d)
        hdr  == <<"header:Daily Rides and Average Duration", "markdown">>
        tmp  == AddDerived(p.tmp)
    IN  IF ~p.ok
        THEN [Blank(WriteThrough(d, p.tmp)) EXCEPT
                 !.out = hdr \o <<"exception">>, !.raised = "ParserError"]
        ELSE [Blank(WriteThrough(d, tmp)) EXCEPT
                 !.out = hdr \o <<"plotly_chart:daily_stats", "markdown">>,
                 !.computed = {"daily_stats"},
                 !.daily_stats = groupby_date_agg(tmp.rows)]

\* a ranking one entry too long
TopStationsMutOffByOne(col) == head(value_counts(col), TopN + 1)

\* Series.value_counts().head(10)
TopStations(col) == head(value_counts(col), TopN)

PopularStationsFixed(d) ==
    [Blank(d) EXCEPT
        !.out = <<"header:Most Popular Stations", "subheader:Top 10 Start Stations",
                  "bar_chart:top_start_stations", "subheader:Station Details",
                  "dataframe:station_df", "subheader:Top 10 End Stations",
                  "bar_chart:top_end_stations">>,
        !.computed = {"top_start_stations", "top_end_stations"},
        !.top_start_stations = TopStations(Column(d.rows, "start_station_name")),
        !.top_end_stations = TopStations(Column(d.rows, "end_station_name"))]

PopularStationsSimple(d) ==
    [Blank(d) EXCEPT
        !.out = <<"header:Most Popular Start Stations", "markdown",
                  "plotly_chart:station_counts", "markdown",
                  "subheader:Station Usage Statistics", "dataframe:station_counts">>,
        !.computed = {"top_start_stations"},
        !.top_start_stations = TopStations(Column(d.rows, "start_station_name"))]

MapSimple(d) ==
    [Blank(d) EXCEPT
        !.out = <<"header:Bike Station Locations Map", "markdown",
                  "plotly_chart:station_data", "markdown">>,
        !.computed = {"station_data"},
        !.station_data = groupby_station_size(d.rows)]

\* a breakdown that looks the member count up under a misspelt key
BreakdownMutKey(d) ==
    LET u == value_counts(Column(d.rows, "member_casual"))
        b == value_counts(Column(d.rows, "rideable_type"))
    IN  [Blank(d) EXCEPT
            !.computed = {"user_type_counts", "bike_type_counts"},
            !.user_type_counts = u,
            !.bike_type_counts = b,
            !.metrics = [NoMetrics EXCEPT
                !.members = get(u, "Member", 0),
                !.casual = get(u, "casual", 0),
                !.member_pct = Percentage(get(u, "Member", 0), CountsSum(u)),
                !.classic = get(b, "classic_bike", 0),
                !.electric = get(b, "electric_bike", 0),
                !.electric_pct = Percentage(get(b, "electric_bike", 0), CountsSum(b))]]

\* the categorical breakdown that opens the user analysis of both variants
Breakdown(d) ==
    LET u == value_counts(Column(d.rows, "member_casual"))
        b == value_counts(Column(d.rows, "rideable_type"))
    IN  [Blank(d) EXCEPT
            !.computed = {"user_type_counts", "bike_type_counts"},
            !.user_type_counts = u,
            !.bike_type_counts = b,
            !.metrics = [NoMetrics EXCEPT
                !.members = get(u, "member", 0),
                !.casual = get(u, "casual", 0),
                !.member_pct = Percentage(get(u, "member", 0), CountsSum(u)),
                !.classic = get(b, "classic_bike", 0),
                !.electric = get(b, "electric_bike", 0),
                !.electric_pct = Percentage(get(b, "electric_bike", 0), CountsSum(b))]]

BreakdownOut(chart) ==
    <<"subheader:User Type Distribution", chart \o ":user_type_counts",
      "metric:Total Members", "metric:Total Casual Users", "metric:Member Percentage",
      "subheader:Bike Type Distribution", chart \o ":bike_type_counts",
      "metric:Classic Bike Rides", "metric:Electric Bike Rides", "metric:Electric Bike %",
      "subheader:Ride Duration Analysis">>

UserAnalysisFixed(d) ==
    LET c    == Breakdown(d)
        pre  == <<"header:User Analysis">> \o BreakdownOut("bar_chart")
        p    == ParseTimestamps(d)
        tmp  == AddDerived(p.tmp)
        filt == Filter(tmp.rows, DistLow, DistHigh)
    IN  IF ~p.ok
        THEN [c EXCEPT !.df = WriteThrough(d, p.tmp),
                       !.out = pre \o <<"exception">>, !.raised = "ParserError"]
        ELSE IF filt = <<>>
        THEN \* pd.cut raises "Cannot cut empty array"
             [c EXCEPT !.df = WriteThrough(d, tmp),
                       !.out = pre \o <<"exception">>, !.raised = "ValueError",
                       !.computed = @ \cup {"df_filtered"},
                       !.nbins = HistBins]
        ELSE [c EXCEPT !.df = WriteThrough(d, tmp),
                       !.out = pre \o <<"bar_chart:hist_df", "write:Average ride duration",
                                        "write:Median ride duration">>,
                       !.computed = @ \cup {"df_filtered", "hist_data"},
                       !.df_filtered = filt,
                       !.nbins = HistBins,
                       !.hist_data = cut_value_counts(
                                         Column(filt, "ride_duration_min"), HistBins)]

\* px.histogram(df_filtered, x=..., nbins=30): the figure carries the rows
\* and the bin limit; the bins are drawn by the chart library in the browser
AdditionalInsightsSimple(d) ==
    LET c    == Breakdown(d)
        pre  == <<"header:Additional Insights">> \o BreakdownOut("plotly_chart")
        p    == ParseTimestamps(d)
        tmp  == AddDerived(p.tmp)
        filt == Filter(tmp.rows, DistLow, DistHigh)
    IN  IF ~p.ok
        THEN [c EXCEPT !.df = WriteThrough(d, p.tmp),
                       !.out = pre \o <<"exception">>, !.raised = "ParserError"]
        ELSE [c EXCEPT !.df = WriteThrough(d, tmp),
                       !.out = pre \o <<"plotly_chart:fig_hist", "write:Average ride duration",
                                        "write:Median ride duration">>,
                       !.computed = @ \cup {"df_filtered", "fig_hist"},
                       !.df_filtered = filt,
                       !.nbins = PlotlyNBins]

RecommendationsFixed(d) ==
    [Blank(d) EXCEPT !.out = <<"header:Recommendations", "markdown", "success">>]

RecommendationsSimple(d) ==
    [Blank(d) EXCEPT !.out = <<"header:Recommendations", "markdown", "image">>]

PagesFixed ==
    {"Intro", "Daily Trends", "Popular Stations", "User Analysis", "Recommendations"}

PagesSimple ==
    {"Intro", "Dual-axis Line Chart", "Most Popular Stations", "Kepler.gl Map",
     "Additional Insights", "Recommendations"}

Pages(v) == IF v = "fixed" THEN PagesFixed ELSE PagesSimple

\* the if / elif chain of a script
RunPage(v, p, d) ==
    IF v = "fixed"
    THEN CASE p = "Intro"            -> IntroFixed(d)
           [] p = "Daily Trends"     -> DailyTrendsFixed(d)
           [] p = "Popular Stations" -> PopularStationsFixed(d)
           [] p = "User Analysis"    -> UserAnalysisFixed(d)
           [] OTHER                  -> RecommendationsFixed(d)
    ELSE CASE p = "Intro"                 -> IntroSimple(d)
           [] p = "Dual-axis Line Chart"  -> DualAxisSimple(d)
           [] p = "Most Popular Stations" -> PopularStationsSimple(d)
           [] p = "Kepler.gl Map"         -> MapSimple(d)
           [] p = "Additional Insights"   -> AdditionalInsightsSimple(d)
           [] OTHER                       -> RecommendationsSimple(d)

----------------------------------------------------------------------------
(* The loader and its memo *)

None == [none |-> TRUE, rows |-> <<>>]

Table(rows) == [none |-> FALSE, rows |-> rows]

\* a loader that answers a missing file with an empty table
load_data_fixed_mutEmptyTable(onDisk, rows) ==
    IF onDisk
    THEN [ret |-> Table(rows), out |-> <<>>, raised |-> "none"]
    ELSE [ret |-> Table(<<>>), out |-> <<"error:Data file not found">>, raised |-> "none"]

\* the body of load_data: pd.read_csv of the fixed path
load_data_fixed(onDisk, rows) ==
    IF onDisk
    THEN [ret |-> Table(rows), out |-> <<>>, raised |-> "none"]
    ELSE [ret |-> None, out |-> <<"error:Data file not found">>, raised |-> "none"]

load_data_simple(onDisk, rows) ==
    IF onDisk
    THEN [ret |-> Table(rows), out |-> <<>>, raised |-> "none"]
    ELSE [ret |-> None, out |-> <<>>, raised |-> "FileNotFoundError"]

load_data(v, onDisk, rows) ==
    IF v = "fixed" THEN load_data_fixed(onDisk, rows) ELSE load_data_simple(onDisk, rows)

EmptyCache == [filled |-> FALSE, value |-> None, msgs |-> <<>>]

\* @st.cache_data around a function without parameters: a hit returns the
\* stored value without running the body (the elements the body emitted are
\* replayed by the releases that record them); a miss runs the body and
\* stores what it returned; a call that raises stores nothing
cache_data(c, call, replay) ==
    IF c.filled
    THEN [ret |-> c.value, out |-> IF replay THEN c.msgs ELSE <<>>,
          raised |-> "none", cache |-> c, read |-> 0]
    ELSE IF call.raised # "none"
    THEN [ret |-> None, out |-> call.out, raised |-> call.raised,
          cache |-> c, read |-> 1]
    ELSE [ret |-> call.ret, out |-> call.out, raised |-> "none",
          cache |-> [filled |-> TRUE, value |-> call.ret, msgs |-> call.out],
          read |-> 1]

\* the guard of the fixed variant around its pages
Guard(d) == ~d.none

\* one run of the fixed script: df = load_data(); if df is not None: ... else
ScriptFixed(p, l) ==
    IF Guard(l.ret)
    THEN LET r == RunPage("fixed", p, l.ret)
         IN  [r EXCEPT !.out = l.out \o r.out] @@ [page |-> p]
    ELSE [Blank(l.ret) EXCEPT !.out = l.out \o <<"error:Unable to load data">>]
         @@ [page |-> p]

\* one run of the simple script: an exception out of load_data ends the run
\* before the sidebar and the pages
ScriptSimple(p, l) ==
    IF l.raised # "none"
    THEN [Blank(l.ret) EXCEPT !.out = <<"exception">>, !.raised = l.raised]
         @@ [page |-> "none"]
    ELSE RunPage("simple", p, l.ret) @@ [page |-> p]

Script(v, p, l) == IF v = "fixed" THEN ScriptFixed(p, l) ELSE ScriptSimple(p, l)

----------------------------------------------------------------------------
(* Actions *)

\* a user interaction: the script reruns with page p selected
Request(p, replay) ==
    /\ p \in Pages(variant)
    /\ cache.filled \/ reads < MaxReads
    /\ \E l \in {cache_data(cache, load_data(variant, present, csv), replay)} :
       \E r \in {Script(variant, p, l)} :
           /\ cache' = l.cache
           /\ reads' = reads + l.read
           /\ page' = r.page
           /\ df' = r.df
           /\ out' = r.out
           /\ raised' = r.raised
           /\ computed' = r.computed
           /\ df_filtered' = r.df_filtered
           /\ daily_stats' = r.daily_stats
           /\ top_start_stations' = r.top_start_stations
           /\ top_end_stations' = r.top_end_stations
           /\ user_type_counts' = r.user_type_counts
           /\ bike_type_counts' = r.bike_type_counts
           /\ metrics' = r.metrics
           /\ hist_data' = r.hist_data
           /\ nbins' = r.nbins
           /\ station_data' = r.station_data
    /\ UNCHANGED <<variant, csv, present>>

\* the environment puts the CSV file in place, or takes it away
PlaceFile ==
    /\ ~present
    /\ present' = TRUE
    /\ UNCHANGED <<variant, csv, cache, reads, page, df, out, raised, computed,
                   df_filtered, daily_stats, top_start_stations, top_end_stations,
                   user_type_counts, bike_type_counts, metrics, hist_data, nbins,
                   station_data>>

RemoveFile ==
    /\ present
    /\ present' = FALSE
    /\ UNCHANGED <<variant, csv, cache, reads, page, df, out, raised, computed,
                   df_filtered, daily_stats, top_start_stations, top_end_stations,
                   user_type_counts, bike_type_counts, metrics, hist_data, nbins,
                   station_data>>

\* whether a hit replays the recorded elements matters only when some were
\* recorded
Replays == IF cache.filled /\ cache.msgs # <<>> THEN BOOLEAN ELSE {TRUE}

RequestAny == \E p \in Pages(variant), replay \in Replays : Request(p, replay)

Next == RequestAny \/ PlaceFile \/ RemoveFile

----------------------------------------------------------------------------
(* Input tables *)

\* 2022-01-01 10:00:00 and 2022-01-02 10:00:00
Day1 == 10 * 3600
Day2 == 86400 + 10 * 3600

BadCell == <<1, 25, 0, 0>>

Row(id, started, ended, s, e, mc, rt) ==
    [ride_id |-> id, started_at |-> started, ended_at |-> ended,
     start_station_name |-> s, end_station_name |-> e,
     start_lat |-> IF s = NaN THEN NaN ELSE "40.7",
     start_lng |-> IF s = NaN THEN NaN ELSE "-73.9",
     member_casual |-> mc, rideable_type |-> rt]

\* a ride that starts at instant t and lasts secs seconds
Ride(id, t, secs) ==
    Row(id, strftime(t), strftime(t + secs), "S1", "S2", "member", "classic_bike")

\* the rows of the duration family: the window edges of both filters, one
\* second beyond each, missing and unparseable cells, a missing ride_id
DurationRows ==
    <<Ride("r", Day1, 300), Ride("r", Day1, 3000), Ride("r", Day1, 7800),
      Ride("r", Day1, 60), Ride("r", Day2, 7200), Ride("r", Day2, 3600),
      Ride("r", Day1, 59), Ride("r", Day1, 3601),
      Row("r", strftime(Day2), <<>>, "S1", "S2", "casual", "electric_bike"),
      Row("r", BadCell, strftime(Day1), "S1", "S2", "member", "classic_bike"),
      Ride(NaN, Day1, 300)>>

\* the rows of the category family
CategoryRows ==
    LET cats == <<<<"member", "classic_bike">>, <<"member", "electric_bike">>,
                  <<"casual", "classic_bike">>, <<"casual", "electric_bike">>,
                  <<"member", "docked_bike">>, <<"casual", NaN>>,
                  <<NaN, "classic_bike">>, <<NaN, NaN>>, <<"member", NaN>>>>
    IN  [k \in 1..Len(cats) |->
            Row("r", strftime(Day1), strftime(Day1 + 600), "S1", "S2",
                cats[k][1], cats[k][2])]

\* the tables of at most n rows of a universe, one per multiset of rows
\* (the aggregations do not depend on the order of the rows)
Tables(universe, n) ==
    UNION {{[i \in 1..len |-> universe[ix[i]]] :
              ix \in {f \in [1..len -> 1..Len(universe)] :
                        \A i \in 1..(len - 1) : f[i] <= f[i + 1]}} :
           len \in 0..n}

StationNames ==
    <<"S1", "S2", "S3", "S4", "S5", "S6", "S7", "S8", "S9", "S10", "S11", "S12",
      "S13", "S14">>

\* the start stations row i of a station table may hold
StationChoice(i) ==
    IF i <= 3 THEN {StationNames[i], StationNames[1], NaN}
    ELSE {StationNames[Min2(i, Len(StationNames))]}

\* the start station columns of len rows
RECURSIVE StationColumns(_)
StationColumns(len) ==
    IF len = 0 THEN {<<>>}
    ELSE {Append(col, c) : col \in StationColumns(len - 1), c \in StationChoice(len)}

\* the tables of the station family: up to MaxRankRows rows, more than TopN
\* distinct start stations in the longest, ties, repeats and empty cells
StationTables ==
    UNION {{[i \in 1..len |->
                Row("r", strftime(Day1), strftime(Day1 + 600), col[i],
                    StationNames[(i % 3) + 1], "member", "classic_bike")] :
              col \in StationColumns(len)} :
           len \in 0..MaxRankRows}

InitWith(tables) ==
    /\ variant \in {"fixed", "simple"}
    /\ csv \in tables
    /\ present \in BOOLEAN
    /\ cache = EmptyCache
    /\ reads = 0
    /\ page = "none"
    /\ df = None
    /\ out = <<>>
    /\ raised = "none"
    /\ computed = {}
    /\ df_filtered = <<>>
    /\ daily_stats = <<>>
    /\ top_start_stations = <<>>
    /\ top_end_stations = <<>>
    /\ user_type_counts = <<>>
    /\ bike_type_counts = <<>>
    /\ metrics = NoMetrics
    /\ hist_data = <<>>
    /\ nbins = 0
    /\ station_data = <<>>

Init == InitWith(Tables(DurationRows, MaxRows))

InitCategory == InitWith(Tables(CategoryRows, MaxRows))

InitStation == InitWith(StationTables)

Spec == Init /\ [][Next]_vars

SpecCategory == InitCategory /\ [][Next]_vars

SpecStation == InitStation /\ [][Next]_vars

----------------------------------------------------------------------------
(* Properties *)

\* the rows of a table with the columns the views derive
DerivedRows(rows) ==
    AddDerived(ParseColumn(ParseColumn([alias |-> FALSE, rows |-> rows],
                                       "started_at"), "ended_at")).rows

\* rows whose duration, in minutes, lies in the closed window [low, high]
InWindow(rows, low, high) ==
    SelectSeq(rows, LAMBDA r : /\ r.ride_duration_min # <<>>
                               /\ r.ride_duration_min[1] >= low * 60
                               /\ r.ride_duration_min[1] <= high * 60)

ErrorElements == {"error:Data file not found", "error:Unable to load data", "exception"}

TrendPages == {"Daily Trends", "Dual-axis Line Chart"}

DistributionPages == {"User Analysis", "Additional Insights"}

\* C1: in both variants a run that finds the CSV file absent (or, in the
\* fixed variant, is handed the memoized None of such a run) shows the user
\* an error and nothing else, and no view computes anything on the table.
C1_MissingFileNoView ==
    [][present' = present =>
          /\ (reads' = reads + 1 /\ ~present) => df'.none
          /\ df'.none =>
                /\ out' # <<>>
                /\ \A i \in 1..Len(out') : out'[i] \in ErrorElements
                /\ computed' = {}
                /\ (variant = "fixed" => raised' = "none")
                /\ (variant = "simple" => raised' = "FileNotFoundError")]_vars

C1_Witness ==
    /\ ~present
    /\ reads = 1
    /\ df.none
    /\ out # <<>>
    /\ computed = {}

\* C2: in both variants the daily trend view aggregates only the rows whose
\* duration lies in [1, 120] minutes; one date with durations 5, 50 and 130
\* minutes gives count 2 and mean 27.5.
C2_TrendAggregatesWindowOnly ==
    (page \in TrendPages /\ "daily_stats" \in computed) =>
        /\ daily_stats =
               groupby_date_agg(InWindow(DerivedRows(df.rows), TrendLow, TrendHigh))
        /\ (df.rows = <<DurationRows[1], DurationRows[2], DurationRows[3]>> =>
               daily_stats = <<[date |-> 1, daily_rides |-> 2,
                                avg_duration |-> <<55, 2>>]>>)

\* C3: within one process the CSV file is read at most once, also when the
\* first call found the file missing.
C3_ReadAtMostOnce == reads <= 1

\* C4: a view that meets an unparseable timestamp aborts without having
\* emitted any output of its own (no header, chart or metric) and without
\* having computed anything.
C4_NoPartialOutput ==
    raised = "ParserError" => (out = <<"exception">> /\ computed = {})

\* C5: the per-date counts of the daily aggregator sum to the number of rows
\* of the table it was given, also when a ride_id is missing.
C5_DailyCountsSumToRows ==
    (page \in TrendPages /\ "daily_stats" \in computed) =>
        SumSeq([i \in 1..Len(daily_stats) |-> daily_stats[i].daily_rides])
            = (IF variant = "fixed" THEN Len(df_filtered) ELSE Len(df.rows))

\* C6: in both variants the duration histogram of every filtered table,
\* also an empty one, has exactly 20 bins in ascending order whose counts
\* sum to the number of filtered rows.
C6_HistogramTwentyBins ==
    (page \in DistributionPages /\ "df_filtered" \in computed) =>
        /\ nbins = HistBins
        /\ Len(hist_data) = HistBins
        /\ \A i \in 1..(Len(hist_data) - 1) : hist_data[i].right <= hist_data[i + 1].left
        /\ SumSeq([i \in 1..Len(hist_data) |-> hist_data[i].count]) = Len(df_filtered)

RankingOK(rank, col) ==
    LET distinct == {col[i] : i \in 1..Len(col)} \ {NaN}
    IN  /\ Len(rank) = Min2(TopN, Cardinality(distinct))
        /\ \A i \in 1..Len(rank) :
              /\ rank[i].value \in distinct
              /\ rank[i].count = Cardinality({k \in 1..Len(col) : col[k] = rank[i].value})
        /\ \A i, j \in 1..Len(rank) : i < j =>
              /\ rank[i].count >= rank[j].count
              /\ rank[i].value # rank[j].value

\* C7: a station ranking has min(10, number of distinct non-null values of
\* the column) entries, one per value, with non-increasing counts, each
\* count being the number of rows that hold the value.
C7_StationRanking ==
    /\ "top_start_stations" \in computed =>
           RankingOK(top_start_stations, Column(df.rows, "start_station_name"))
    /\ "top_end_stations" \in computed =>
           RankingOK(top_end_stations, Column(df.rows, "end_station_name"))

C7_Witness ==
    /\ "top_start_stations" \in computed
    /\ Cardinality({df.rows[i].start_station_name : i \in 1..Len(df.rows)} \ {NaN}) > TopN
    /\ Len(top_start_stations) = TopN
    /\ top_start_stations[1].count > top_start_stations[TopN].count

BreakdownOK(counts, col) ==
    /\ \A v \in {col[i] : i \in 1..Len(col)} :
          get(counts, v, 0) = Cardinality({k \in 1..Len(col) : col[k] = v})
    /\ \A i, j \in 1..Len(counts) : i < j => counts[i].value # counts[j].value
    /\ \A i \in 1..Len(counts) : counts[i].count > 0
    /\ CountsSum(counts) = Len(col)

RowsWith(col, v) == Cardinality({k \in 1..Len(col) : col[k] = v})

\* C8: on a table without a null category the breakdown gives every
\* category its number of rows, 0 for a category of interest that does not
\* occur, and the counts sum to the number of rows; two member rows and one
\* casual row give member 2, casual 1.
C8_CategoricalBreakdown ==
    "user_type_counts" \in computed =>
        LET mc == Column(df.rows, "member_casual")
            rt == Column(df.rows, "rideable_type")
        IN  /\ (\A i \in 1..Len(mc) : mc[i] # NaN) =>
                   /\ BreakdownOK(user_type_counts, mc)
                   /\ metrics.members = RowsWith(mc, "member")
                   /\ metrics.casual = RowsWith(mc, "casual")
                   /\ (RowsWith(mc, "member") = 2 /\ RowsWith(mc, "casual") = 1 =>
                          user_type_counts = <<[value |-> "member", count |-> 2],
                                               [value |-> "casual", count |-> 1]>>)
            /\ (\A i \in 1..Len(rt) : rt[i] # NaN) =>
                   /\ BreakdownOK(bike_type_counts, rt)
                   /\ metrics.classic = RowsWith(rt, "classic_bike")
                   /\ metrics.electric = RowsWith(rt, "electric_bike")

C8_Witness ==
    /\ "user_type_counts" \in computed
    /\ Len(df.rows) = 3
    /\ \A i \in 1..Len(df.rows) :
          df.rows[i].member_casual = "member" /\ df.rows[i].rideable_type # NaN
    /\ metrics.members = 3
    /\ metrics.casual = 0
    /\ metrics.electric = 0
    /\ metrics.classic > 0

\* C9: the filtered table of a view is exactly the rows whose duration lies
\* in the closed window of the view, (1, 120) for the trend view and (1, 60)
\* for the duration distribution: the bounds are kept, rows outside and rows
\* without a duration are dropped.
C9_ClosedWindowFilter ==
    "df_filtered" \in computed =>
        df_filtered =
            IF page \in TrendPages
            THEN InWindow(DerivedRows(df.rows), TrendLow, TrendHigh)
            ELSE InWindow(DerivedRows(df.rows), DistLow, DistHigh)

C9_Witness ==
    /\ page = "Daily Trends"
    /\ "df_filtered" \in computed
    /\ \E i \in 1..Len(df_filtered) : df_filtered[i].ride_duration_min = <<TrendLow * 60>>
    /\ \E i \in 1..Len(df_filtered) : df_filtered[i].ride_duration_min = <<TrendHigh * 60>>
    /\ Len(df_filtered) < Len(df.rows)

\* C10: no request changes the memoized table: once filled the memo keeps
\* its content, and the table load_data handed to the page holds, after the
\* page ran, the rows and columns the memo holds.
C10_CachedTableUnchanged ==
    [][/\ cache.filled => cache' = cache
       /\ cache'.filled => df' = cache'.value]_vars

C10_Witness ==
    /\ cache.filled
    /\ page \in TrendPages \cup DistributionPages
    /\ "daily_stats" \in computed \/ "df_filtered" \in computed
    /\ Len(df.rows) = MaxRows
    /\ df = Table(csv)

====
